---- MODULE Spec2Model ----
(***************************************************************************)
(* A model of the Mastermind engine (engine.py) and of its bot supervisor  *)
(* (sandbox.py): the Game object running run_game_loop, the BotProcess     *)
(* supervisor (start / call / stop / _kill), the worker process running    *)
(* _bot_worker_main, and the pipe between them.  The engine's position is  *)
(* kept at the points where it blocks (the poll of start(), the poll of    *)
(* call(), the join of stop()); the worker runs concurrently.  The pure    *)
(* functions validate_code and score_feedback are operators, and are also  *)
(* exercised on their own by SpecValidate and SpecScore.  SpecSup is one   *)
(* BotProcess under a caller that invokes start, call and stop in any      *)
(* order; SpecLive is Spec with the engine's waits ending.                 *)
(***************************************************************************)
EXTENDS Integers, Sequences, FiniteSets, TLC

\* ---------------------------------------------------------------- bounds
\* settings["code_length"], settings["max_turns"] and the size of
\* settings["code_colors"] of the game the engine is driven with.
CodeLength == 2
NumColors == 2
MaxTurns == 3
\* settings["game_seed"] is drawn from 0..MaxSeed, or is absent.
MaxSeed == 1
\* How many times the caller runs run_game_loop on the one Game object.
MaxTrials == 2
\* The inputs score_feedback is exercised on by itself: every pair of codes
\* of one length up to ScoreMaxLen over ScoreNumColors colors.
ScoreMaxLen == 3
ScoreNumColors == 3

\* ------------------------------------------------------ program constants
DEFAULT_SEED == 104

Colors == 1..NumColors
\* A token outside settings["code_colors"].
BadToken == 0
Tokens == Colors \cup {BadToken}

Min(a, b) == IF a <= b THEN a ELSE b

RECURSIVE SumOver(_, _)
\* sum(f[x] for x in S)
SumOver(f, S) ==
    IF S = {} THEN 0
    ELSE LET x == CHOOSE y \in S : TRUE
         IN f[x] + SumOver(f, S \ {x})

\* ------------------------------------------------------------ validate_code
\* validate_code without its length check.
ValidateNoLength(code) ==
    IF \E i \in 1..Len(code) : code[i] \notin 1..NumColors
    THEN <<FALSE, "invalid color symbol">>
    ELSE <<TRUE, "valid code">>

\* validate_code with its two checks in the other order.
ValidateColorsFirst(code) ==
    IF \E i \in 1..Len(code) : code[i] \notin 1..NumColors
    THEN <<FALSE, "invalid color symbol">>
    ELSE IF Len(code) # CodeLength THEN <<FALSE, "wrong length">>
         ELSE <<TRUE, "valid code">>

\* settings[CODE_LENGTH] and set(settings[CODE_COLORS]) are CodeLength and
\* Colors.  A guess that is no sized sequence (None) makes len() raise.
validate_code(code) ==
    IF Len(code) # CodeLength THEN <<FALSE, "wrong length">>
    ELSE IF \E i \in 1..Len(code) : code[i] \notin Colors
         THEN <<FALSE, "invalid color symbol">>
         ELSE <<TRUE, "valid code">>

\* ----------------------------------------------------------- score_feedback
\* zip(code, guess): the index range both sequences have.
Zip(code, guess) == 1..Min(Len(code), Len(guess))

\* Counter(items[i] for i in idx), as a function over the tokens seen.
Counter(items, idx) ==
    [c \in {items[i] : i \in idx} |-> Cardinality({i \in idx : items[i] = c})]

\* sum((a & b).values()): the minimum of the two counts, token by token.
CounterIntersectionSize(a, b) ==
    LET common == DOMAIN a \cap DOMAIN b
    IN SumOver([c \in common |-> Min(a[c], b[c])], common)

\* score_feedback with counters that keep the position matches.
ScoreNoFilter(code, guess) ==
    LET black == Cardinality({i \in Zip(code, guess) : code[i] = guess[i]})
        white == CounterIntersectionSize(Counter(code, Zip(code, guess)),
                                         Counter(guess, Zip(code, guess)))
    IN [black |-> black, white |-> white, guess |-> guess]

\* The counters leave out the positions where code and guess agree.
score_feedback(code, guess) ==
    LET black == SumOver([i \in Zip(code, guess) |->
                              IF code[i] = guess[i] THEN 1 ELSE 0],
                         Zip(code, guess))
        rest  == {i \in Zip(code, guess) : code[i] # guess[i]}
        secret_counter == Counter(code, rest)
        guess_counter  == Counter(guess, rest)
        white == CounterIntersectionSize(secret_counter, guess_counter)
    IN [black |-> black, white |-> white, guess |-> guess]

\* ------------------------------------------------------------------- state
VARIABLES
    seed,        \* settings["game_seed"] after Game.__init__
    rng,         \* the state of Game.rng
    trial,       \* how many run_game_loop calls have begun on this Game
    pc,          \* where the engine is: idle | start_wait | call_wait |
                 \*   stop_wait | done
    method,      \* the method of the call() the engine is blocked in
    turn,        \* the loop variable of run_game_loop
    secret,      \* run_game_loop's secret
    guess,       \* run_game_loop's guess: what make_guess last returned
    history,     \* run_game_loop's history
    bot_info,    \* run_game_loop's bot_info: <<>> until assigned, then <<info>>
    result,      \* what run_game_loop returns: <<>> or <<record>>
    raised,      \* the exception run_game_loop lets escape, or "none"
    exitPath,    \* the branch of run_game_loop that ended the match
    stopCalled,  \* whether the finally clause has called bot_process.stop()
    bp,          \* the BotProcess: alive, _parent_pipe and _bot_process set
    worker,      \* the worker process: none | loading | serving | hung |
                 \*   returned (the serving loop ended by a break) |
                 \*   crashed (an exception left the serving loop) |
                 \*   exited (a failed load returned, or the process was
                 \*   terminated or died)
    chanReq,     \* pipe, supervisor to worker: the requests not yet received
    chanResp,    \* pipe, worker to supervisor: the responses not yet received
    log,         \* everything the engine has handed to this match's worker
    prevFault,   \* whether the previous match on this Game ended in a call fault
    fnPc,        \* SpecScore, SpecValidate: off | in | out
    fnCode,      \* SpecScore: the code given to score_feedback
    fnGuess,     \* SpecScore: the guess given to score_feedback
    fnOut,       \* SpecScore: what score_feedback returned
    fnValid,     \* SpecValidate: what validate_code returned for fnGuess
    ops,         \* SpecSup: how many BotProcess operations the caller invoked
    lastOp,      \* SpecSup: the last one invoked: none | start | call | stop
    errText,     \* SpecSup: the message of the exception it raised, or ""
    ret,         \* SpecSup: the message start() or call() last received:
                 \*   <<>> or <<message>>
    nRecv        \* SpecSup: how many responses call() has received on the
                 \*   pipe of the handle

gameVars == <<seed, rng, trial, pc, method, turn, secret, guess, history,
              bot_info, result, raised, exitPath, stopCalled, bp, worker,
              chanReq, chanResp, log, prevFault>>
fnVars == <<fnPc, fnCode, fnGuess, fnOut, fnValid>>
supVars == <<ops, lastOp, errText, ret, nRecv>>
vars == <<gameVars, fnVars, supVars>>

\* ------------------------------------------------------- Game.rng, _rand_code
\* random.Random is modelled by a small full-period congruential generator:
\* what matters to the engine is that the stream is a function of the seed.
RngModulus == 16
RngSeed(sd) == sd % RngModulus
RngStep(s) == (5 * s + 3) % RngModulus
\* rng.choices(colors, k=n): k times colors[floor(random() * len(colors))].
RECURSIVE Choices(_, _)
Choices(s, k) ==
    IF k = 0 THEN [code |-> <<>>, rng |-> s]
    ELSE LET s1 == RngStep(s)
             c  == ((s1 * NumColors) \div RngModulus) + 1
             r  == Choices(s1, k - 1)
         IN [code |-> <<c>> \o r.code, rng |-> r.rng]

_rand_code(s) == Choices(s, CodeLength)

\* The secret the n-th run_game_loop of a Game seeded sd draws.
RECURSIVE RngAfter(_, _)
RngAfter(sd, n) ==
    IF n = 0 THEN RngSeed(sd) ELSE _rand_code(RngAfter(sd, n - 1)).rng
SecretOf(sd, n) == _rand_code(RngAfter(sd, n - 1)).code

\* Game.__init__: an absent game_seed (-1 here) becomes DEFAULT_SEED.
NoSeed == 0 - 1
GivenSeeds == (0..MaxSeed) \cup {NoSeed}
GameInit(given) == IF given = NoSeed THEN DEFAULT_SEED ELSE given

\* The settings dictionary the Game holds and hands to BotProcess.
Settings(sd) ==
    [game_seed |-> sd, bot_seed |-> "None", max_turns |-> MaxTurns,
     code_length |-> CodeLength, code_colors |-> Colors]

\* --------------------------------------------------------------- messages
\* Requests the supervisor writes to the pipe.
CallRequest(m, args) == [op |-> "call", method |-> m, args |-> args]
StopRequest == [op |-> "stop", method |-> "", args |-> <<>>]
\* Process(target=_bot_worker_main, args=(child_conn, module, class, settings)).
Launch(sd) == [op |-> "launch", method |-> "", args |-> <<Settings(sd)>>]

\* Responses the worker writes to the pipe.  val is a tagged value: what an
\* agent method returned.
ReadyResponse == [ok |-> TRUE, val |-> [kind |-> "ready"], error |-> ""]
OkResponse(v) == [ok |-> TRUE, val |-> v, error |-> ""]
ErrResponse(e) == [ok |-> FALSE, val |-> [kind |-> "none"], error |-> e]

NoneVal == [kind |-> "none"]
SeqVal(s) == [kind |-> "seq", seq |-> s]
InfoVal(i) == [kind |-> "info", info |-> i]

\* What agents may return: infos, and guesses (valid ones, ones with a token
\* outside the colors, ones of a wrong length), or None.  The agent is not
\* given the secret: the sets below only pick which guesses the model tries.
Infos == {[name |-> "n1", author |-> "a1"], [name |-> "n2", author |-> "a2"]}
UnknownInfo == [name |-> "unknown", author |-> "unknown"]
Codes == [1..CodeLength -> Colors]
Reverse(q) == [i \in 1..Len(q) |-> q[Len(q) + 1 - i]]
Rotate(q) == [i \in 1..Len(q) |-> q[(i % Len(q)) + 1]]
\* The guesses the agents of the model make in a match with secret sec: the
\* secret, its reversal and its rotation (so that black and white pegs both
\* occur, and a win), and the one-color codes.
ValidGuesses(sec) ==
    {sec, Reverse(sec), Rotate(sec)} \cup {[i \in 1..CodeLength |-> c] : c \in Colors}
\* The secret with a token outside the colors, and codes of a wrong length.
InvalidGuesses(sec) ==
    {[sec EXCEPT ![1] = BadToken], [sec EXCEPT ![CodeLength] = BadToken],
     SubSeq(sec, 1, CodeLength - 1), sec \o <<1>>, <<BadToken>>}
Guesses(sec) == ValidGuesses(sec) \cup InvalidGuesses(sec)

Running == {"loading", "serving", "hung"}

\* ---------------------------------------------------------- the supervisor
\* The supervisor's side of one match, as a value: the BotProcess fields, the
\* worker it launched, the two directions of the pipe and what was handed over.
Sup == [bp |-> bp, worker |-> worker, req |-> chanReq, resp |-> chanResp,
        log |-> log]

SetSup(S) ==
    /\ bp' = S.bp
    /\ worker' = S.worker
    /\ chanReq' = S.req
    /\ chanResp' = S.resp
    /\ log' = S.log

\* BotProcess.__init__
NewHandle == [alive |-> FALSE, pipe |-> FALSE, proc |-> FALSE]

\* _kill without the terminate(): the fields are reset, the process is left.
KillNoTerminate(S) ==
    [S EXCEPT !.bp = NewHandle, !.req = <<>>, !.resp = <<>>]

\* _kill that does nothing at all: the handle stays as it was.
KillNothing(S) == S

\* BotProcess._kill: terminate the process if there is one and it is alive,
\* then drop the process, the pipe and the alive flag.
_kill(S) ==
    [S EXCEPT !.worker = IF S.bp.proc /\ @ \in Running THEN "exited" ELSE @,
              !.bp = NewHandle, !.req = <<>>, !.resp = <<>>]

\* start() without its test of self.alive.
StartLaunchAlways(S, sd) ==
    [S EXCEPT !.bp = [alive |-> FALSE, pipe |-> TRUE, proc |-> TRUE],
              !.worker = "loading",
              !.log = Append(@, Launch(sd))]

\* BotProcess.start up to its poll: the pipe, the Process, Process.start().
start_launch(S, sd) ==
    IF S.bp.alive THEN S
    ELSE [S EXCEPT !.bp = [alive |-> FALSE, pipe |-> TRUE, proc |-> TRUE],
                   !.worker = "loading",
                   !.log = Append(@, Launch(sd))]

\* make_result with a history of its own, never appended to.
MakeResultEmptyHistory(turns, res, reason, info) ==
    [turns |-> turns, result |-> res, reason |-> reason, secret |-> secret,
     history |-> <<>>, botinfo |-> info]

\* make_result: the default of bot_info is the unknown record.
make_result(turns, res, reason, info) ==
    [turns |-> turns, result |-> res, reason |-> reason, secret |-> secret,
     history |-> history', botinfo |-> info]

\* The except clauses of the three call sites: BotError and BotTimeout become
\* a loss, with turns -1 and no bot_info for the bot_info call, and with the
\* turn and the bot_info for make_guess and receive_feedback.
CallFaultAlwaysMinusOne(m, reason) ==
    make_result(0 - 1, "loss", reason, UnknownInfo)
CallFaultResult(m, reason) ==
    IF m = "bot_info"
    THEN make_result(0 - 1, "loss", reason, UnknownInfo)
    ELSE make_result(turn', "loss", reason, bot_info'[1])
\* The name of the exit through the except clause of method m's call site.
FaultPath(m, kind) ==
    CASE m = "bot_info" -> "info_" \o kind
      [] m = "make_guess" -> "guess_" \o kind
      [] m = "receive_feedback" -> "feedback_" \o kind

\* The finally clause of run_game_loop: bot_process.stop().  stop() returns at
\* once on a handle that is not alive; otherwise it sends the stop request and
\* joins the worker (the engine blocks: stop_wait), and a send that fails
\* (the worker is gone) goes straight on to _kill.
Finally(S) ==
    /\ stopCalled' = TRUE
    /\ IF ~S.bp.alive \/ ~S.bp.pipe
       THEN pc' = "done" /\ SetSup(S)
       ELSE IF S.worker \in Running
            THEN /\ pc' = "stop_wait"
                 /\ SetSup([S EXCEPT !.req = Append(@, StopRequest),
                                     !.log = Append(@, StopRequest)])
            ELSE pc' = "done" /\ SetSup(_kill(S))

\* A return statement inside the try block.
Return(res, path, S) ==
    /\ result' = <<res>>
    /\ raised' = "none"
    /\ exitPath' = path
    /\ method' = method
    /\ Finally(S)

\* An exception that leaves the try block uncaught.
Raise(exc, path, S) ==
    /\ result' = <<>>
    /\ raised' = exc
    /\ exitPath' = path
    /\ method' = method
    /\ Finally(S)

\* bot_process.call(m, *args) up to its poll.  On a handle that is not alive
\* it raises BotError, which the call site catches (the engine only calls on
\* an alive handle); a send to a worker that is gone raises BrokenPipeError,
\* which run_game_loop does not catch.
Call(m, args, S) ==
    IF ~S.bp.alive \/ ~S.bp.pipe
    THEN Return(CallFaultResult(m, <<"exception", m, "Bot process not started">>),
                FaultPath(m, "error"), S)
    ELSE IF S.worker \notin Running
         THEN Raise("BrokenPipeError", "send_failed", S)
         ELSE /\ pc' = "call_wait"
              /\ method' = m
              /\ SetSup([S EXCEPT !.req = Append(@, CallRequest(m, args)),
                                  !.log = Append(@, CallRequest(m, args))])
              /\ UNCHANGED <<result, raised, exitPath, stopCalled>>

\* The exits of run_game_loop through an except clause of a call site.
CallFaults == {"info_error", "info_timeout", "guess_error", "guess_timeout",
               "feedback_error", "feedback_timeout"}

\* A loop that runs one turn too many.
LoopOffByOne(t) == t + 1 <= MaxTurns + 1
\* for turn in range(1, max_turns + 1): whether a turn follows turn t.
LoopContinues(t) == t + 1 <= MaxTurns

\* -------------------------------------------------------------- the engine
\* A Game whose generator is not seeded from game_seed: random.Random().
GameNewUnseeded(given) ==
    /\ seed = GameInit(given)
    /\ rng \in 0..(RngModulus - 1)
    /\ trial = 0
    /\ pc = "idle"
    /\ method = ""
    /\ turn = 0
    /\ secret = <<>>
    /\ guess = NoneVal
    /\ history = <<>>
    /\ bot_info = <<>>
    /\ result = <<>>
    /\ raised = "none"
    /\ exitPath = "none"
    /\ stopCalled = FALSE
    /\ bp = NewHandle
    /\ worker = "none"
    /\ chanReq = <<>>
    /\ chanResp = <<>>
    /\ log = <<>>
    /\ prevFault = FALSE

\* Game.__init__ with game_seed given (or absent), before any run_game_loop.
GameNew(given) ==
    /\ seed = GameInit(given)
    /\ rng = RngSeed(GameInit(given))
    /\ trial = 0
    /\ pc = "idle"
    /\ method = ""
    /\ turn = 0
    /\ secret = <<>>
    /\ guess = NoneVal
    /\ history = <<>>
    /\ bot_info = <<>>
    /\ result = <<>>
    /\ raised = "none"
    /\ exitPath = "none"
    /\ stopCalled = FALSE
    /\ bp = NewHandle
    /\ worker = "none"
    /\ chanReq = <<>>
    /\ chanResp = <<>>
    /\ log = <<>>
    /\ prevFault = FALSE

NoFeedback == [black |-> 0, white |-> 0, guess |-> <<>>]
NoVerdict == <<FALSE, "">>
\* No BotProcess operation has been invoked by a caller other than the engine.
SupNew ==
    /\ ops = 0
    /\ lastOp = "none"
    /\ errText = ""
    /\ ret = <<>>
    /\ nRecv = 0

Init ==
    /\ \E given \in GivenSeeds : GameNew(given)
    /\ fnPc = "off"
    /\ fnCode = <<>>
    /\ fnGuess = <<>>
    /\ fnOut = NoFeedback
    /\ fnValid = NoVerdict
    /\ SupNew

\* run_game_loop, from its entry to the poll of bot_process.start().
RunGameLoop ==
    /\ pc \in {"idle", "done"}
    /\ trial < MaxTrials
    /\ trial' = trial + 1
    /\ secret' = _rand_code(rng).code
    /\ rng' = _rand_code(rng).rng
    /\ guess' = NoneVal
    /\ history' = <<>>
    /\ bot_info' = <<>>
    /\ prevFault' = (exitPath \in CallFaults)
    /\ turn' = 0
    /\ method' = ""
    /\ result' = <<>>
    /\ raised' = "none"
    /\ exitPath' = "none"
    /\ stopCalled' = FALSE
    /\ pc' = "start_wait"
    /\ SetSup(start_launch([bp |-> NewHandle, worker |-> "none", req |-> <<>>,
                            resp |-> <<>>, log |-> <<>>], seed))
    /\ UNCHANGED <<seed, fnVars, supVars>>

Last(q) == q[Len(q)]
BotInfo == bot_info[1]
Exception(m, err) == <<"exception", m, err>>

\* start(): poll(start_timeout) found nothing.  _kill, raise BotTimeout; the
\* try block has no handler for it, so it leaves run_game_loop.
StartTimeout ==
    /\ pc = "start_wait"
    /\ chanResp = <<>>
    /\ Raise("BotTimeout", "start_timeout", _kill(Sup))
    /\ UNCHANGED <<seed, rng, trial, turn, secret, guess, history, bot_info,
                   prevFault, fnVars, supVars>>

\* start(): the worker's first message is there.  A failure: _kill, raise
\* BotError (uncaught by the try block).  Ready: alive, and the engine goes on
\* to call("bot_info").
StartRecv ==
    /\ pc = "start_wait"
    /\ chanResp # <<>>
    /\ LET msg == Head(chanResp)
           S0  == [Sup EXCEPT !.resp = Tail(@)]
       IN IF ~msg.ok
          THEN Raise("BotError", "start_error", _kill(S0))
          ELSE Call("bot_info", <<>>, [S0 EXCEPT !.bp.alive = TRUE])
    /\ UNCHANGED <<seed, rng, trial, turn, secret, guess, history, bot_info,
                   prevFault, fnVars, supVars>>

\* call(): poll(timeout) found nothing.  _kill, raise BotTimeout, which each
\* of the three call sites of run_game_loop turns into a result.
CallTimeout ==
    /\ pc = "call_wait"
    /\ chanResp = <<>>
    /\ worker \in Running
    /\ UNCHANGED <<seed, rng, trial, turn, secret, guess, history, bot_info,
                   prevFault, fnVars, supVars>>
    /\ LET S1 == _kill(Sup)
       IN Return(CallFaultResult(method, <<"timeout">>),
                 FaultPath(method, "timeout"), S1)

\* call(): the worker is gone and left no response: poll() reports the end of
\* the channel and recv() raises EOFError, which nothing catches.
CallEOF ==
    /\ pc = "call_wait"
    /\ chanResp = <<>>
    /\ worker \notin Running
    /\ Raise("EOFError", "eof", Sup)
    /\ UNCHANGED <<seed, rng, trial, turn, secret, guess, history, bot_info,
                   prevFault, fnVars, supVars>>

\* The response to bot_info: an error ends the match with turns -1; a result
\* is kept as bot_info and the for loop starts with make_guess.
InfoRecv ==
    /\ pc = "call_wait"
    /\ method = "bot_info"
    /\ chanResp # <<>>
    /\ UNCHANGED <<seed, rng, trial, secret, guess, history, prevFault, fnVars, supVars>>
    /\ LET msg == Head(chanResp)
           S0  == [Sup EXCEPT !.resp = Tail(@)]
       IN IF ~msg.ok
          THEN /\ UNCHANGED <<turn, bot_info>>
               /\ Return(CallFaultResult("bot_info",
                                          Exception("bot_info", msg.error)),
                         "info_error", S0)
          ELSE /\ bot_info' = <<msg.val.info>>
               /\ IF LoopContinues(0)
                  THEN turn' = 1 /\ Call("make_guess", <<>>, S0)
                  ELSE /\ turn' = turn
                       /\ Return(make_result(MaxTurns, "loss",
                                             <<"exhausted turns">>,
                                             msg.val.info), "exhausted", S0)

\* A win check that takes any permutation of the secret for the secret.
IsWinAnyOrder(feedback) == feedback.black + feedback.white = CodeLength
\* The win check of run_game_loop.
IsWin(feedback) == feedback.black = CodeLength

\* The response to make_guess: an error ends the match; a guess is validated
\* (len() of a value that is no sequence raises TypeError), an invalid one
\* ends the match, a valid one is scored, appended to history and sent back
\* with receive_feedback.
GuessRecv ==
    /\ pc = "call_wait"
    /\ method = "make_guess"
    /\ chanResp # <<>>
    /\ UNCHANGED <<seed, rng, trial, turn, secret, bot_info, prevFault, fnVars, supVars>>
    /\ LET msg == Head(chanResp)
           S0  == [Sup EXCEPT !.resp = Tail(@)]
       IN IF ~msg.ok
          THEN /\ history' = history
               /\ guess' = guess
               /\ Return(CallFaultResult("make_guess",
                                          Exception("make_guess", msg.error)),
                         "guess_error", S0)
          ELSE IF msg.val.kind # "seq"
          THEN /\ history' = history
               /\ guess' = msg.val
               /\ Raise("TypeError", "validate_raised", S0)
          ELSE IF ~validate_code(msg.val.seq)[1]
          THEN /\ history' = history
               /\ guess' = msg.val
               /\ Return(make_result(turn, "loss", <<"invalid code">>,
                                     UnknownInfo), "invalid_code", S0)
          ELSE LET feedback == score_feedback(secret, msg.val.seq)
               IN /\ history' = Append(history, feedback)
                  /\ guess' = msg.val
                  /\ Call("receive_feedback", <<feedback>>, S0)

\* The response to receive_feedback: an error ends the match; otherwise the
\* win check, and the next turn or the end of the loop.
FeedbackRecv ==
    /\ pc = "call_wait"
    /\ method = "receive_feedback"
    /\ chanResp # <<>>
    /\ UNCHANGED <<seed, rng, trial, secret, guess, history, bot_info,
                   prevFault, fnVars, supVars>>
    /\ LET msg == Head(chanResp)
           S0  == [Sup EXCEPT !.resp = Tail(@)]
       IN IF ~msg.ok
          THEN /\ turn' = turn
               /\ Return(CallFaultResult("receive_feedback",
                                          Exception("receive_feedback", msg.error)),
                         "feedback_error", S0)
          ELSE IF IsWin(Last(history))
          THEN /\ turn' = turn
               /\ Return(make_result(turn, "win", <<"guessed code">>, BotInfo),
                         "win", S0)
          ELSE IF LoopContinues(turn)
          THEN turn' = turn + 1 /\ Call("make_guess", <<>>, S0)
          ELSE /\ turn' = turn
               /\ Return(make_result(MaxTurns, "loss", <<"exhausted turns">>,
                                     BotInfo), "exhausted", S0)

\* stop(): the join is over (the worker exited, or the stop timeout ran out);
\* _kill, and run_game_loop is left.
StopFinish ==
    /\ pc = "stop_wait"
    /\ pc' = "done"
    /\ SetSup(_kill(Sup))
    /\ UNCHANGED <<seed, rng, trial, method, turn, secret, guess, history,
                   bot_info, result, raised, exitPath, stopCalled, prevFault,
                   fnVars, supVars>>

\* --------------------------------------------------------------- the worker
engineVars == <<seed, rng, trial, pc, method, turn, secret, guess, history,
                bot_info, result, raised, exitPath, stopCalled, bp, log,
                prevFault>>

LoadFailures == {"Import failed", "Class not found", "Instantiation failed",
                 "bot_info() failed"}

\* _bot_worker_main before its loop: import, class lookup, instantiation and
\* the bot_info() probe; one failure response and return, or the ready
\* response.  Agent code may also never return.
WorkerLoad ==
    /\ worker = "loading"
    /\ \/ worker' = "serving" /\ chanResp' = Append(chanResp, ReadyResponse)
       \/ \E e \in LoadFailures :
             worker' = "exited" /\ chanResp' = Append(chanResp, ErrResponse(e))
       \/ worker' = "hung" /\ chanResp' = chanResp
    /\ UNCHANGED <<engineVars, chanReq, fnVars, supVars>>

\* What an agent method may return.
ReturnsOf(m) ==
    CASE m = "bot_info" -> {InfoVal(i) : i \in Infos}
      [] m = "make_guess" -> {SeqVal(g) : g \in Guesses(secret)} \cup {NoneVal}
      [] OTHER -> {NoneVal}

\* One pass of the worker's loop: receive a request; stop ends the loop with
\* no message; a call is answered with the result, with the agent's fault or
\* with "No such method"; any other op with "Unknown call".  Agent code may
\* also never return, and it may raise what "except Exception" does not
\* catch (SystemExit from sys.exit(), KeyboardInterrupt): that leaves the
\* loop and ends the worker with no response.  Only BotProcess writes to the
\* pipe, so every request is a dict; and BotProcess terminates the worker
\* before it drops its end of the pipe, so recv() never meets the end of the
\* channel.
WorkerServe ==
    /\ worker = "serving"
    /\ chanReq # <<>>
    /\ chanReq' = Tail(chanReq)
    /\ LET msg == Head(chanReq)
       IN IF msg.op = "stop"
          THEN worker' = "returned" /\ chanResp' = chanResp
          ELSE IF msg.op = "call"
          THEN \/ \E v \in ReturnsOf(msg.method) :
                     worker' = worker /\ chanResp' = Append(chanResp, OkResponse(v))
               \/ \E e \in {"No such method", "traceback"} :
                     worker' = worker /\ chanResp' = Append(chanResp, ErrResponse(e))
               \/ worker' = "hung" /\ chanResp' = chanResp
               \/ worker' = "crashed" /\ chanResp' = chanResp
          ELSE worker' = worker
               /\ chanResp' = Append(chanResp, ErrResponse("Unknown call"))
    /\ UNCHANGED <<engineVars, fnVars, supVars>>

\* The worker process ends without the supervisor's doing (the agent exits
\* the process, or it is killed from outside).
WorkerDie ==
    /\ worker \in Running
    /\ worker' = "exited"
    /\ UNCHANGED <<engineVars, chanReq, chanResp, fnVars, supVars>>

Next ==
    \/ RunGameLoop
    \/ StartTimeout
    \/ StartRecv
    \/ CallTimeout
    \/ CallEOF
    \/ InfoRecv
    \/ GuessRecv
    \/ FeedbackRecv
    \/ StopFinish
    \/ WorkerLoad
    \/ WorkerServe
    \/ WorkerDie

Spec == Init /\ [][Next]_vars

\* The engine's own steps.  Each of its waits ends: poll() returns when a
\* message is there, when the channel has ended or when its timeout has run
\* out, and join() returns when the worker has exited or its timeout has run
\* out.  Nothing is assumed of the worker, nor of the caller's next trial.
EngineStep ==
    \/ StartTimeout
    \/ StartRecv
    \/ CallTimeout
    \/ CallEOF
    \/ InfoRecv
    \/ GuessRecv
    \/ FeedbackRecv
    \/ StopFinish

SpecLive == Init /\ [][Next]_vars /\ WF_vars(EngineStep)

\* ------------------------------------------------- score_feedback by itself
\* The inputs: every pair of codes of one length up to ScoreMaxLen over
\* ScoreNumColors colors, and the two worked examples of the specification
\* (R, G, B, Y are 1, 2, 3, 4).
ScoreCodes(n) == [1..n -> 1..ScoreNumColors]
ExampleDup == << <<1, 1, 2, 3>>, <<2, 3, 1, 1>> >>
ExampleExact == << <<1, 2, 3, 4>>, <<1, 4, 3, 2>> >>
ScoreInputs ==
    UNION {ScoreCodes(n) \X ScoreCodes(n) : n \in 0..ScoreMaxLen}
    \cup {ExampleDup, ExampleExact}

InitScore ==
    /\ GameNew(NoSeed)
    /\ fnPc = "in"
    /\ \E in \in ScoreInputs : fnCode = in[1] /\ fnGuess = in[2]
    /\ fnOut = NoFeedback
    /\ fnValid = NoVerdict
    /\ SupNew

ApplyScore ==
    /\ fnPc = "in"
    /\ fnPc' = "out"
    /\ fnOut' = score_feedback(fnCode, fnGuess)
    /\ UNCHANGED <<fnCode, fnGuess, fnValid, gameVars, supVars>>

NextScore == ApplyScore

SpecScore == InitScore /\ [][NextScore]_vars

\* -------------------------------------------------- validate_code by itself
\* The inputs: every sequence of up to CodeLength + ValidateExtraLen tokens,
\* each a color or the token outside the colors.
ValidateExtraLen == 2
ValidateInputs ==
    UNION {[1..n -> Tokens] : n \in 0..(CodeLength + ValidateExtraLen)}

InitValidate ==
    /\ GameNew(NoSeed)
    /\ fnPc = "in"
    /\ fnCode = <<>>
    /\ fnGuess \in ValidateInputs
    /\ fnOut = NoFeedback
    /\ fnValid = NoVerdict
    /\ SupNew

ApplyValidate ==
    /\ fnPc = "in"
    /\ fnPc' = "out"
    /\ fnValid' = validate_code(fnGuess)
    /\ UNCHANGED <<fnCode, fnGuess, fnOut, gameVars, supVars>>

NextValidate == ApplyValidate

SpecValidate == InitValidate /\ [][NextValidate]_vars

\* ------------------------------------------------- BotProcess under any caller
\* One BotProcess on which a caller invokes start(), call() and stop() in any
\* order, MaxOps operations in all, each one blocking until it returns or
\* raises.  pc is the caller's position (idle, or inside an operation at its
\* poll or join); method is the method of the last call(); raised and errText
\* are the exception the last operation raised ("none" and "" if it returned
\* or has not ended yet).
MaxOps == 4
SupMethods == {"bot_info", "make_guess", "receive_feedback"}
NotStartedText == "Bot process not started"

InitSup ==
    /\ seed = DEFAULT_SEED
    /\ rng = RngSeed(DEFAULT_SEED)
    /\ trial = 0
    /\ pc = "idle"
    /\ method = ""
    /\ turn = 0
    /\ secret = SecretOf(DEFAULT_SEED, 1)
    /\ guess = NoneVal
    /\ history = <<>>
    /\ bot_info = <<>>
    /\ result = <<>>
    /\ raised = "none"
    /\ exitPath = "none"
    /\ stopCalled = FALSE
    /\ bp = NewHandle
    /\ worker = "none"
    /\ chanReq = <<>>
    /\ chanResp = <<>>
    /\ log = <<>>
    /\ prevFault = FALSE
    /\ fnPc = "off"
    /\ fnCode = <<>>
    /\ fnGuess = <<>>
    /\ fnOut = NoFeedback
    /\ fnValid = NoVerdict
    /\ SupNew

\* What no BotProcess operation touches.
supFrame == <<seed, rng, trial, turn, secret, guess, history, bot_info, result,
              exitPath, stopCalled, prevFault, fnVars>>

\* The caller invokes operation op.
Invoke(op) ==
    /\ pc = "idle"
    /\ ops < MaxOps
    /\ ops' = ops + 1
    /\ lastOp' = op

\* The operation returns.
SupReturn ==
    /\ pc' = "idle"
    /\ raised' = "none"
    /\ errText' = ""

\* The operation raises exc with message text.
SupRaise(exc, text) ==
    /\ pc' = "idle"
    /\ raised' = exc
    /\ errText' = text

\* start(), to its poll: on an alive handle start_launch does nothing and
\* start() returns.
SupStart ==
    /\ Invoke("start")
    /\ SetSup(start_launch(Sup, seed))
    /\ IF bp.alive
       THEN SupReturn
       ELSE pc' = "start_wait" /\ raised' = "none" /\ errText' = ""
    /\ UNCHANGED <<method, ret, nRecv, supFrame>>

\* start(): poll(start_timeout) found nothing: _kill, raise BotTimeout.
SupStartTimeout ==
    /\ pc = "start_wait"
    /\ chanResp = <<>>
    /\ SetSup(_kill(Sup))
    /\ SupRaise("BotTimeout", "failed to start in time")
    /\ ret' = <<>>
    /\ UNCHANGED <<method, ops, lastOp, nRecv, supFrame>>

\* start(): the worker's first message: a failure (_kill, raise BotError) or
\* the readiness message (alive).
SupStartRecv ==
    /\ pc = "start_wait"
    /\ chanResp # <<>>
    /\ LET msg == Head(chanResp)
           S0  == [Sup EXCEPT !.resp = Tail(@)]
       IN /\ ret' = <<msg>>
          /\ IF ~msg.ok
             THEN SetSup(_kill(S0)) /\ SupRaise("BotError", "failed to start")
             ELSE SetSup([S0 EXCEPT !.bp.alive = TRUE]) /\ SupReturn
    /\ nRecv' = 0
    /\ UNCHANGED <<method, ops, lastOp, supFrame>>
\* A guard that lets every handle through.
NotStartedIgnored(S) == FALSE
\* The guard of call() and of stop(): not self.alive or no _parent_pipe.
not_started(S) == ~S.bp.alive \/ ~S.bp.pipe

\* call(m), to its poll.  Not started: raise BotError, nothing sent.  A send
\* on a pipe whose worker is gone raises BrokenPipeError, which call() lets
\* through with the handle as it was.
SupCall ==
    /\ Invoke("call")
    /\ \E m \in SupMethods :
          /\ method' = m
          /\ IF not_started(Sup)
             THEN SupRaise("BotError", NotStartedText) /\ SetSup(Sup)
             ELSE IF worker \notin Running
             THEN SupRaise("BrokenPipeError", "") /\ SetSup(Sup)
             ELSE /\ pc' = "call_wait"
                  /\ SetSup([Sup EXCEPT !.req = Append(@, CallRequest(m, <<>>)),
                                        !.log = Append(@, CallRequest(m, <<>>))])
                  /\ raised' = "none" /\ errText' = ""
    /\ UNCHANGED <<ret, nRecv, supFrame>>

\* call(): poll(timeout) found nothing: _kill, raise BotTimeout.
SupCallTimeout ==
    /\ pc = "call_wait"
    /\ chanResp = <<>>
    /\ worker \in Running
    /\ SetSup(_kill(Sup))
    /\ SupRaise("BotTimeout", "timed out calling")
    /\ UNCHANGED <<method, ops, lastOp, ret, nRecv, supFrame>>

\* call(): the worker is gone and left no response: recv() raises EOFError,
\* which call() lets through with the handle as it was.
SupCallEOF ==
    /\ pc = "call_wait"
    /\ chanResp = <<>>
    /\ worker \notin Running
    /\ SetSup(Sup)
    /\ SupRaise("EOFError", "")
    /\ UNCHANGED <<method, ops, lastOp, ret, nRecv, supFrame>>

\* call(): the response: its result is returned, or BotError is raised with
\* its error text; the handle stays as it is.
SupCallRecv ==
    /\ pc = "call_wait"
    /\ chanResp # <<>>
    /\ LET msg == Head(chanResp)
       IN /\ ret' = <<msg>>
          /\ SetSup([Sup EXCEPT !.resp = Tail(@)])
          /\ IF msg.ok THEN SupReturn ELSE SupRaise("BotError", msg.error)
    /\ nRecv' = nRecv + 1
    /\ UNCHANGED <<method, ops, lastOp, supFrame>>

\* stop(), to its join.  Not started: return.  Otherwise the stop request is
\* sent and the worker joined; a send that raises (the worker is gone) is
\* swallowed and _kill follows at once.
SupStop ==
    /\ Invoke("stop")
    /\ IF not_started(Sup)
       THEN SupReturn /\ SetSup(Sup)
       ELSE IF worker \in Running
       THEN /\ pc' = "stop_wait"
            /\ SetSup([Sup EXCEPT !.req = Append(@, StopRequest),
                                  !.log = Append(@, StopRequest)])
            /\ raised' = "none" /\ errText' = ""
       ELSE SupReturn /\ SetSup(_kill(Sup))
    /\ UNCHANGED <<method, ret, nRecv, supFrame>>

\* stop(): the join is over (the worker exited, or the stop timeout ran
\* out): _kill, return.
SupStopFinish ==
    /\ pc = "stop_wait"
    /\ SetSup(_kill(Sup))
    /\ SupReturn
    /\ UNCHANGED <<method, ops, lastOp, ret, nRecv, supFrame>>

NextSup ==
    \/ SupStart
    \/ SupStartTimeout
    \/ SupStartRecv
    \/ SupCall
    \/ SupCallTimeout
    \/ SupCallEOF
    \/ SupCallRecv
    \/ SupStop
    \/ SupStopFinish
    \/ WorkerLoad
    \/ WorkerServe
    \/ WorkerDie

SpecSup == InitSup /\ [][NextSup]_vars
\* ================================================================== claims
\* The match is over for the caller: run_game_loop has returned or raised.
Done == pc = "done"
\* A return or raise has been reached (the finally clause may still be
\* waiting in stop()).
Ended == pc \in {"stop_wait", "done"}
Returned == Ended /\ Len(result) = 1
Res == result[1]

\* How many requests for method m the worker of this match was sent.
CallsOf(m) ==
    Cardinality({i \in DOMAIN log : log[i].op = "call" /\ log[i].method = m})
\* The last call request sent to the worker of this match.
LastCall ==
    LET idx == {i \in DOMAIN log : log[i].op = "call"}
    IN log[CHOOSE i \in idx : \A j \in idx : j <= i]

IsValidGuess(g) == Len(g) = CodeLength /\ \A i \in 1..Len(g) : g[i] \in Colors

\* C1 (as claimed): a match whose start() failed (startup timeout, or a
\* failure message from the worker) ends with a returned result: outcome
\* loss, turns_used -1, nothing raised.
C1_StartFaultReturnsLoss ==
    (Done /\ exitPath \in {"start_timeout", "start_error"}) =>
        /\ raised = "none"
        /\ Len(result) = 1
        /\ Res.result = "loss"
        /\ Res.turns = 0 - 1

\* C2: whenever run_game_loop has finished, by whichever exit, stop() has
\* been called, the handle is not alive (no pipe, no process kept) and the
\* worker launched for the match is not running.
C2_StoppedOnEveryExit ==
    Done =>
        /\ stopCalled
        /\ bp = NewHandle
        /\ worker \notin Running

\* C2 witness: a match left by an unexpected exception (validate_code raised
\* on a guess that is no sequence), stopped and with its worker gone.
C2_Witness ==
    /\ Done
    /\ exitPath = "validate_raised"
    /\ raised = "TypeError"
    /\ stopCalled
    /\ worker = "exited"

\* C3: a make_guess call that timed out at turn t has killed the worker (the
\* handle is not alive, pipe and process are dropped, the worker is not
\* running), the match is over at once with a returned loss, reason timeout,
\* turns_used = t, and the timed-out make_guess request, the t-th, is the
\* last request that worker was sent: no retry, no stop request.
C3_GuessTimeoutKills ==
    exitPath = "guess_timeout" =>
        /\ Done
        /\ bp = NewHandle
        /\ worker \notin Running
        /\ chanReq = <<>>
        /\ raised = "none"
        /\ Len(result) = 1
        /\ Res.result = "loss"
        /\ Res.reason = <<"timeout">>
        /\ Res.turns = turn
        /\ turn \in 1..MaxTurns
        /\ Last(log) = CallRequest("make_guess", <<>>)
        /\ CallsOf("make_guess") = turn

\* C3 witness: a timeout of make_guess at the second turn.
C3_Witness ==
    /\ Done
    /\ exitPath = "guess_timeout"
    /\ turn = 2
    /\ Res.turns = 2

\* What the engine of a Game seeded sd would have handed over as its i-th
\* message, the agent answering as it did in this match.
HandedUnder(sd, i) ==
    IF log[i].op = "launch" THEN Launch(sd)
    ELSE IF log[i].op = "call" /\ log[i].method = "receive_feedback"
    THEN LET k == Cardinality({j \in 1..i : log[j].op = "call"
                                  /\ log[j].method = "receive_feedback"})
         IN CallRequest("receive_feedback",
                        <<score_feedback(SecretOf(sd, trial), history[k].guess)>>)
    ELSE log[i]
\* A message with the black and white counts of a feedback blanked.
EraseCounts(m) ==
    IF m.op = "call" /\ m.method = "receive_feedback"
    THEN [m EXCEPT !.args = <<[@[1] EXCEPT !.black = 0, !.white = 0]>>]
    ELSE m

\* C4 (as claimed): a match with another secret (a Game seeded otherwise, the
\* agent answering the same) hands the worker the same launch configuration
\* and the same requests, up to the black and white counts.
C4_SecretNotHandedOver ==
    \A given \in GivenSeeds :
        (trial >= 1 /\ SecretOf(GameInit(given), trial) # secret) =>
            \A i \in DOMAIN log :
                EraseCounts(log[i]) = EraseCounts(HandedUnder(GameInit(given), i))

\* C5 (as claimed): the botinfo of a returned result is what the agent
\* reported if the bot_info call succeeded, and the unknown record otherwise.
C5_AgentInfoInResult ==
    Returned =>
        Res.botinfo = IF bot_info # <<>> THEN BotInfo ELSE UnknownInfo

\* C6: a match ended by a call fault has a returned loss (nothing raised)
\* with turns_used -1 for the bot_info call and the current turn for
\* make_guess and receive_feedback, and a reason naming the fault (timeout,
\* or exception with the method and the worker's error text); and the match
\* that follows it on the same Game begins from nothing of it: empty history,
\* no bot_info, no result, a new handle whose only message is its own launch,
\* and the secret that this Game's seed gives its n-th match.
C6_CallFaultIsLoss ==
    /\ (exitPath \in CallFaults) =>
          /\ Ended
          /\ raised = "none"
          /\ Len(result) = 1
          /\ Res.result = "loss"
          /\ Res.turns = IF method = "bot_info" THEN 0 - 1 ELSE turn
          /\ method # "bot_info" => turn \in 1..MaxTurns
          /\ exitPath \in {"info_timeout", "guess_timeout", "feedback_timeout"}
                => Res.reason = <<"timeout">>
          /\ exitPath \in {"info_error", "guess_error", "feedback_error"}
                => /\ Len(Res.reason) = 3
                   /\ Res.reason[1] = "exception"
                   /\ Res.reason[2] = method
                   /\ Res.reason[3] \in {"No such method", "traceback"}
          /\ exitPath \in {"info_error", "info_timeout"} <=> method = "bot_info"
          /\ exitPath \in {"guess_error", "guess_timeout"} <=> method = "make_guess"
    /\ (prevFault /\ pc = "start_wait") =>
          /\ history = <<>>
          /\ bot_info = <<>>
          /\ guess = NoneVal
          /\ result = <<>>
          /\ raised = "none"
          /\ turn = 0
          /\ ~bp.alive /\ bp.pipe /\ bp.proc
          /\ log = <<Launch(seed)>>
          /\ chanReq = <<>>
          /\ Len(chanResp) <= 1
          /\ secret = SecretOf(seed, trial)

\* C6 witness: a second match has been begun on a Game whose first match
\* ended in a call fault.
C6_Witness ==
    /\ prevFault
    /\ trial = 2
    /\ pc = "start_wait"
    /\ worker = "loading"

\* The feedback of the guess was delivered: the receive_feedback call of the
\* last record did not fault.
Delivered == exitPath \notin {"feedback_error", "feedback_timeout"}

\* C7: a returned result is a win exactly when the last validated guess
\* equals the secret (black = code_length) and its feedback was delivered;
\* a win has reason "guessed code" and turns_used = the turn t <= max_turns
\* of that guess, which is the last turn played (t make_guess requests, t
\* records, no earlier record a full match); every other returned result is
\* a loss, and a match that raised has no win.
C7_WinExactly ==
    /\ Returned =>
          /\ Res.result \in {"win", "loss"}
          /\ Res.result = "win" <=>
                /\ history # <<>>
                /\ Last(history).guess = secret
                /\ Last(history).black = CodeLength
                /\ Delivered
          /\ Res.result = "win" =>
                /\ Res.reason = <<"guessed code">>
                /\ Res.turns = turn
                /\ turn \in 1..MaxTurns
                /\ Len(history) = turn
                /\ CallsOf("make_guess") = turn
                /\ LastCall.method = "receive_feedback"
                /\ \A i \in 1..(Len(history) - 1) : history[i].guess # secret
    /\ \A i \in DOMAIN history :
          history[i].black = CodeLength <=> history[i].guess = secret

\* C7 witness: a win at the second turn.
C7_Witness ==
    /\ Done
    /\ Returned
    /\ Res.result = "win"
    /\ Res.turns = 2
    /\ history[1].guess # secret

\* C8: never more than max_turns make_guess requests are sent; and a match
\* in which max_turns valid guesses were scored, none the secret, and the
\* last feedback was delivered, ends with a returned loss, reason "exhausted
\* turns", turns_used = max_turns, after exactly max_turns make_guess
\* requests.
C8_ExhaustedTurns ==
    /\ CallsOf("make_guess") <= MaxTurns
    /\ Len(history) <= MaxTurns
    /\ (/\ Ended
        /\ Len(history) = MaxTurns
        /\ \A i \in DOMAIN history : history[i].guess # secret
        /\ exitPath \notin {"feedback_error", "feedback_timeout", "eof",
                            "send_failed"}) =>
          /\ raised = "none"
          /\ Len(result) = 1
          /\ Res.result = "loss"
          /\ Res.reason = <<"exhausted turns">>
          /\ Res.turns = MaxTurns
          /\ CallsOf("make_guess") = MaxTurns
          /\ CallsOf("receive_feedback") = MaxTurns

\* C8 witness: a match that ran out of turns.
C8_Witness ==
    /\ Done
    /\ exitPath = "exhausted"
    /\ Len(history) = MaxTurns
    /\ Res.turns = MaxTurns

\* C9: when the guess make_guess returned is invalid (wrong length, or a
\* token outside the colors), the match has ended at that turn t with a
\* returned loss, reason "invalid code", turns_used = t; the guess was not
\* scored (history has the t - 1 records of the turns before, all of valid
\* guesses), and the make_guess request that brought it, the t-th, is the
\* last call sent: no receive_feedback for it, no further make_guess.
C9_InvalidGuessForfeits ==
    /\ (guess.kind = "seq" /\ ~IsValidGuess(guess.seq)) =>
          /\ Ended
          /\ exitPath = "invalid_code"
          /\ raised = "none"
          /\ Len(result) = 1
          /\ Res.result = "loss"
          /\ Res.reason = <<"invalid code">>
          /\ Res.turns = turn
          /\ turn \in 1..MaxTurns
          /\ Len(history) = turn - 1
          /\ Res.history = history
          /\ LastCall = CallRequest("make_guess", <<>>)
          /\ CallsOf("make_guess") = turn
          /\ CallsOf("receive_feedback") = turn - 1
    /\ exitPath = "invalid_code" => (guess.kind = "seq" /\ ~IsValidGuess(guess.seq))
    /\ \A i \in DOMAIN history : IsValidGuess(history[i].guess)

\* C9 witness: a guess of a wrong length at the second turn.
C9_Witness ==
    /\ Done
    /\ exitPath = "invalid_code"
    /\ guess.kind = "seq"
    /\ Len(guess.seq) # CodeLength
    /\ turn = 2
    /\ Len(history) = 1

\* How often token c occurs in sequence q.
Count(q, c) == Cardinality({i \in DOMAIN q : q[i] = c})
TokensOf(q) == {q[i] : i \in DOMAIN q}

\* C10: for a secret S and a guess G of one length, score_feedback returns
\* black = the number of positions where S and G agree, white = the sum over
\* the colors of min(occurrences among S's unmatched positions, occurrences
\* among G's unmatched positions), which is also (sum over the colors of
\* min(count in S, count in G)) - black; the guess is returned as given; and
\* the two worked examples give (0, 4) and (2, 2).
C10_ScoreFeedback ==
    fnPc = "out" =>
        LET S == fnCode
            G == fnGuess
            all == TokensOf(S) \cup TokensOf(G)
            unmatched == {i \in DOMAIN S : S[i] # G[i]}
            black == Cardinality(DOMAIN S \ unmatched)
            restS(c) == Cardinality({i \in unmatched : S[i] = c})
            restG(c) == Cardinality({i \in unmatched : G[i] = c})
        IN /\ fnOut.black = black
           /\ fnOut.white = SumOver([c \in all |-> Min(restS(c), restG(c))], all)
           /\ fnOut.white =
                 SumOver([c \in all |-> Min(Count(S, c), Count(G, c))], all) - black
           /\ fnOut.guess = G
           /\ <<S, G>> = ExampleDup => fnOut.black = 0 /\ fnOut.white = 4
           /\ <<S, G>> = ExampleExact => fnOut.black = 2 /\ fnOut.white = 2

\* C10 witness: the duplicate-color example has been scored.
C10_Witness ==
    /\ fnPc = "out"
    /\ <<fnCode, fnGuess>> = ExampleDup
    /\ fnOut.white = 4

\* C11: every record of history has 0 <= black <= code_length and
\* 0 <= white <= code_length - black; a record whose guess is the secret has
\* black = code_length and white = 0; and so does score_feedback of any code
\* against itself (a fact of the function alone: it is evaluated for the
\* secret of every match, and for every code once, before the first match).
C11_FeedbackBounds ==
    /\ \A i \in DOMAIN history :
          /\ history[i].black \in 0..CodeLength
          /\ history[i].white \in 0..(CodeLength - history[i].black)
          /\ history[i].guess = secret =>
                history[i].black = CodeLength /\ history[i].white = 0
    /\ secret # <<>> =>
          /\ score_feedback(secret, secret).black = CodeLength
          /\ score_feedback(secret, secret).white = 0
    /\ trial = 0 =>
          \A c \in Codes :
              /\ score_feedback(c, c).black = CodeLength
              /\ score_feedback(c, c).white = 0

\* C11 witness: a history with a record of white pegs only, then the record
\* of the secret itself.
C11_Witness ==
    /\ Len(history) = 2
    /\ history[1].black = 0
    /\ history[1].white = CodeLength
    /\ history[2].guess = secret
    /\ history[2].black = CodeLength

\* C13 (as claimed): every run_game_loop trial on one Game has the secret of
\* the first trial of that Game's seed.
C13_TrialsRepeatSecret ==
    trial >= 1 => secret = SecretOf(seed, 1)

\* C13 (amended): the secret of the n-th run_game_loop of a Game is a
\* function of the seed and of n alone, so two Games built with the same
\* seed have the same secret in their n-th match; the generator has then
\* made n draws, whatever the matches before did; and every record of
\* history is the score of that secret against the agent's guess, so the
\* same guesses give the same history.
C13_SeedDeterminesSecret ==
    trial >= 1 =>
        \E drawn \in {_rand_code(RngAfter(seed, trial - 1))} :
            /\ secret = SecretOf(seed, trial)
            /\ rng = drawn.rng
            /\ \A i \in DOMAIN history :
                  history[i] = score_feedback(drawn.code, history[i].guess)

\* C13 witness: the second trial of a Game, with a record in its history and
\* a secret other than the first trial's.
C13_Witness ==
    /\ trial = 2
    /\ history # <<>>
    /\ secret # SecretOf(seed, 1)
    /\ secret = SecretOf(seed, 2)

\* C12: validate_code returns valid exactly when the guess has code_length
\* tokens and every token is a color; its reason is "wrong length" whenever
\* the length differs (whatever the tokens), "invalid color symbol" when the
\* length is right and some token is outside the colors, and "valid code"
\* otherwise.
C12_ValidateCode ==
    fnPc = "out" =>
        LET G == fnGuess
            rightLength == Len(G) = CodeLength
            allColors == TokensOf(G) \subseteq Colors
        IN /\ fnValid[1] <=> (rightLength /\ allColors)
           /\ fnValid[2] = "wrong length" <=> ~rightLength
           /\ fnValid[2] = "invalid color symbol" <=> (rightLength /\ ~allColors)
           /\ fnValid[2] = "valid code" <=> (rightLength /\ allColors)

\* C12 witness: a guess of a wrong length with a token outside the colors
\* was given the reason "wrong length".
C12_Witness ==
    /\ fnPc = "out"
    /\ Len(fnGuess) = CodeLength + 1
    /\ BadToken \in TokensOf(fnGuess)
    /\ fnValid = <<FALSE, "wrong length">>

\* ------------------------------------------------------------- BotProcess
\* The caller is between two operations and the last one was op.
After(op) == pc = "idle" /\ lastOp = op
\* This step is the caller invoking op.
Invoking(op) == pc = "idle" /\ ops' = ops + 1 /\ lastOp' = op
\* The handle, the worker and both directions of the pipe are left alone and
\* nothing is handed to a worker.
SupUntouched == UNCHANGED <<bp, worker, chanReq, chanResp, log>>

\* C14: the handle is not alive before any start(), after a stop(), after a
\* start() that raised and after a call() that timed out; and a call() on a
\* handle that is not alive raises BotError "Bot process not started" at
\* once, sends no request, launches no worker and leaves the handle as it
\* was.
C14_CallNotStarted ==
    /\ [](/\ ops = 0 => ~bp.alive
          /\ After("stop") => ~bp.alive
          /\ (After("start") /\ raised # "none") => ~bp.alive
          /\ (After("call") /\ raised = "BotTimeout") => ~bp.alive)
    /\ [][(Invoking("call") /\ ~(bp.alive /\ bp.pipe)) =>
             /\ pc' = "idle"
             /\ raised' = "BotError"
             /\ errText' = NotStartedText
             /\ SupUntouched]_vars

\* C14 witness: a call() on the handle whose worker the call() before it had
\* killed on its timeout.
C14_Witness ==
    /\ After("call")
    /\ raised = "BotError"
    /\ errText = NotStartedText
    /\ log # <<>>
    /\ Last(log).op = "call"
    /\ bp = NewHandle

\* C15: stop() raises nothing; when it has returned, the handle is not alive
\* and has no pipe and no process, the worker is not running and the pipe
\* holds nothing, whatever the handle and the worker were before; and a
\* stop() on a handle that is not alive (a second stop() in particular)
\* returns at once, changes nothing and sends no message.
C15_StopIdempotent ==
    /\ [](/\ lastOp = "stop" => raised = "none"
          /\ After("stop") =>
                /\ bp = NewHandle
                /\ worker \notin Running
                /\ chanReq = <<>>
                /\ chanResp = <<>>)
    /\ [][(Invoking("stop") /\ (lastOp = "stop" \/ ~bp.alive)) =>
             /\ pc' = "idle"
             /\ raised' = "none"
             /\ SupUntouched]_vars

\* C15 witness: a second stop() has returned; the first had sent the stop
\* request the worker ended on.
C15_Witness ==
    /\ After("stop")
    /\ ops = 3
    /\ log = <<Launch(seed), StopRequest>>
    /\ worker = "returned"
    /\ bp = NewHandle

\* C16: when start() has ended it has returned, or raised BotTimeout having
\* received no message, or raised BotError having received a failure message
\* of the loading worker; when it raised, the handle is not alive and has no
\* pipe and no process and the worker it launched is not running; when it
\* returned, and so whenever it received the readiness message, the handle
\* is alive.
C16_StartFaultKills ==
    After("start") =>
        /\ raised \in {"none", "BotTimeout", "BotError"}
        /\ raised = "BotTimeout" => ret = <<>>
        /\ raised = "BotError" =>
              /\ ret # <<>>
              /\ ~ret[1].ok
              /\ ret[1].error \in LoadFailures
        /\ raised # "none" =>
              /\ bp = NewHandle
              /\ worker \notin Running
              /\ worker # "none"
              /\ chanReq = <<>>
              /\ chanResp = <<>>
        /\ raised = "none" => (bp.alive /\ bp.pipe /\ bp.proc)
        /\ ret = <<ReadyResponse>> => (raised = "none" /\ bp.alive)

\* C16 witness: start() has raised BotTimeout on the restart of a stopped
\* handle, and the worker that sent nothing is terminated.
C16_Witness ==
    /\ After("start")
    /\ raised = "BotTimeout"
    /\ ops = 3
    /\ log = <<Launch(seed), StopRequest, Launch(seed)>>
    /\ worker = "exited"
    /\ bp = NewHandle

\* The requests sent on the pipe of the current worker: what the log holds
\* after its last launch.
LastLaunch ==
    LET idx == {i \in DOMAIN log : log[i].op = "launch"}
    IN IF idx = {} THEN 0 ELSE CHOOSE i \in idx : \A j \in idx : j <= i
SentOnPipe(opsOf) ==
    Cardinality({i \in DOMAIN log : i > LastLaunch /\ log[i].op \in opsOf})
\* Those of them the worker has received.
ReceivedByWorker(opsOf) ==
    SentOnPipe(opsOf)
        - Cardinality({i \in DOMAIN chanReq : chanReq[i].op \in opsOf})
\* The responses the worker has sent since its readiness message.
ResponsesSent == nRecv + Len(chanResp)

Serving(op) ==
    /\ worker = "serving"
    /\ chanReq # <<>>
    /\ Head(chanReq).op = op
    /\ chanReq' = Tail(chanReq)
    /\ bp' = bp

\* C18 (as claimed): the worker that takes a call request stays in its loop:
\* it answers with one response (the result, or ok:false for a fault of the
\* agent method or a missing method) and serves on, unless the agent method
\* never returns; and a call() that raised BotError for an ok:false response
\* has left the handle alive.
C18_FaultsAnswered ==
    /\ [][Serving("call") =>
             \/ worker' = "serving" /\ Len(chanResp') = Len(chanResp) + 1
             \/ worker' = "hung" /\ chanResp' = chanResp]_vars
    /\ []((After("call") /\ raised = "BotError" /\ errText # NotStartedText)
             => bp.alive)

\* C20 (as claimed): a worker that has sent its readiness message leaves its
\* serving loop only in the step in which it takes a stop request, and sends
\* nothing in that step; and a worker that takes a stop request has left its
\* loop and ended.  (BotProcess terminates the worker before it drops its end
\* of the pipe, so a worker never leaves the loop at the end of the channel.)
C20_LoopEndsOnStopOnly ==
    /\ [][(worker = "serving" /\ worker' \in {"returned", "crashed"}) =>
             (Serving("stop") /\ chanResp' = chanResp)]_vars
    /\ [][Serving("stop") =>
             (worker' = "returned" /\ chanResp' = chanResp)]_vars

\* C19 (as claimed): every run_game_loop that has begun comes to its end,
\* whatever the worker does; its loop variable never exceeds max_turns; and
\* it ends with a result record.  The last is stated of the matches whose
\* start() succeeded.
C19_ReachesTerminated ==
    /\ \A t \in 1..MaxTrials :
          (trial = t /\ pc \in {"start_wait", "call_wait", "stop_wait"})
              ~> (trial = t /\ Done)
    /\ [](turn <= MaxTurns)
    /\ []((Done /\ exitPath \notin {"start_timeout", "start_error"})
             => Returned)

\* This step launches a worker.
Launching == Len(log') = Len(log) + 1 /\ log'[Len(log')].op = "launch"

\* C21: the handle has a process whenever a worker it launched is running,
\* so dropping the handle (stop, call timeout, failed start) has terminated
\* the worker; a worker is launched only when none is running and the handle
\* has no process, so no two are alive at once; and start() on an alive
\* handle returns at once, launches nothing and changes nothing.
C21_OneWorker ==
    /\ [](/\ worker \in Running => bp.proc
          /\ bp.alive => (bp.pipe /\ bp.proc))
    /\ [][Launching => (worker \notin Running /\ ~bp.proc /\ ~bp.alive)]_vars
    /\ [][(Invoking("start") /\ bp.alive) =>
             /\ pc' = "idle"
             /\ raised' = "none"
             /\ SupUntouched]_vars

\* C21 witness: a second start() has returned on the alive handle; one
\* launch in all, its worker serving.
C21_Witness ==
    /\ After("start")
    /\ ops = 2
    /\ log = <<Launch(seed)>>
    /\ bp.alive
    /\ worker = "serving"

\* C22: the history of a returned result is the history of the match, one
\* record per validated guess in turn order (the k-th record is of a valid
\* guess and is what the k-th receive_feedback request carried); it has
\* turns_used records after a win, after exhausted turns and after a
\* receive_feedback fault, turns_used - 1 records after a make_guess fault
\* and after an invalid guess, and none when turns_used is -1; and no record
\* but the last has black = code_length.
C22_HistoryLength ==
    Returned =>
        LET H == Res.history
            n == Len(Res.history)
            t == Res.turns
            fb == {i \in DOMAIN log : log[i].op = "call"
                                      /\ log[i].method = "receive_feedback"}
        IN /\ H = history
           /\ exitPath \in {"win", "exhausted", "feedback_error",
                            "feedback_timeout", "guess_error", "guess_timeout",
                            "invalid_code", "info_error", "info_timeout"}
           /\ exitPath \in {"win", "exhausted", "feedback_error",
                            "feedback_timeout"} => n = t
           /\ exitPath \in {"guess_error", "guess_timeout", "invalid_code"}
                 => n = t - 1
           /\ exitPath \in {"info_error", "info_timeout"} <=> t = 0 - 1
           /\ t = 0 - 1 => n = 0
           /\ Cardinality(fb) = n
           /\ \A i \in fb :
                 log[i].args = <<H[Cardinality({j \in fb : j <= i})]>>
           /\ \A k \in 1..n : IsValidGuess(H[k].guess)
           /\ \A k \in 1..(n - 1) : H[k].black # CodeLength

\* C22 witness: the secret was guessed at the second turn and the
\* receive_feedback call for it timed out: a loss with two records, the last
\* one with black = code_length.
C22_Witness ==
    /\ Done
    /\ exitPath = "feedback_timeout"
    /\ Res.result = "loss"
    /\ Res.turns = 2
    /\ Len(Res.history) = 2
    /\ Res.history[1].black # CodeLength
    /\ Res.history[2].black = CodeLength

====
